---- MODULE Spec2Model ----
(***************************************************************************)
(* A model of the lars linear-algebra library (src/src/common.rs,          *)
(* src/src/vector.rs, src/src/matrix.rs).                                  *)
(*                                                                         *)
(* The scalar type T is instantiated as a signed machine integer           *)
(* (impl Number for i32, common.rs:27): + - * are the integer operations   *)
(* (the values used stay far below the width, so no overflow arises) and   *)
(* / is the truncating integer division, which panics on a zero divisor.   *)
(* Equality alone is also taken at T = f64 (impl Number for f64,           *)
(* common.rs:9), where the scalar NaN differs from itself (SpecEq).        *)
(*                                                                         *)
(* Every library call is a pure operator returning a result record         *)
(*   [st |-> status, out |-> value]                                        *)
(* where st = "ok" for a call that returns and otherwise names the panic   *)
(* that ended it.  A Vec<T> is a sequence; the 0-based index i of the      *)
(* source is position i+1 of the sequence.                                 *)
(***************************************************************************)
EXTENDS Integers, Sequences, FiniteSets, TLC

VARIABLES m, last

vars == <<m, last>>

(***************************************************************************)
(* Bounds of the model.                                                    *)
(***************************************************************************)
\* Largest row count, column count, index argument and vector length drawn.
MaxDim == 2

\* Scalar values drawn for defaults, stored elements and slice elements.
Vals == {0, 1}

Dims == 0 .. MaxDim

RECURSIVE SeqsOfLen(_)
SeqsOfLen(n) ==
    IF n = 0 THEN {<<>>}
    ELSE {Append(s, x) : s \in SeqsOfLen(n - 1), x \in Vals}

\* The slices handed to vector::from / matrix::from and the vector operands.
Slices == UNION {SeqsOfLen(n) : n \in Dims}

(***************************************************************************)
(* Results of calls.                                                       *)
(***************************************************************************)
None == <<>>

Ok(x) == [st |-> "ok", out |-> x]

Panic(s) == [st |-> s, out |-> None]

(***************************************************************************)
(* common.rs: the scalar capability, at T = i32.                           *)
(***************************************************************************)
Abs(a) == IF a < 0 THEN 0 - a ELSE a

\* a / b of a primitive integer: truncates toward zero, panics on b = 0.
IntDiv(a, b) ==
    IF b = 0 THEN Panic("DivideByZero")
    ELSE IF (a < 0) = (b < 0) THEN Ok(Abs(a) \div Abs(b))
    ELSE Ok(0 - (Abs(a) \div Abs(b)))

\* a OP b for the four operators of Num.
ScalarOp(op, a, b) ==
    CASE op = "+" -> Ok(a + b)
      [] op = "-" -> Ok(a - b)
      [] op = "*" -> Ok(a * b)
      [] op = "/" -> IntDiv(a, b)

(***************************************************************************)
(* vector.rs: Vector<T> is its content, a Vec<T>.                          *)
(***************************************************************************)
\* Vector::new(length, default): vec![default; length]
Vector_new(length, default) == [i \in 1 .. length |-> default]

\* vector::from(elements): a copy of the slice
vector_from(elements) == elements

\* self.content[index] (Index / IndexMut, and Vec's own bounds check)
Vector_index(self, index) ==
    IF index < Len(self) THEN Ok(self[index + 1])
    ELSE Panic("SliceIndexOutOfBounds")

\* self.content[index] = a
Vector_index_mut(self, index, a) ==
    IF index < Len(self) THEN Ok([self EXCEPT ![index + 1] = a])
    ELSE Panic("SliceIndexOutOfBounds")

\* for n in 0 .. self.len() { pass.content[n] = self.content[n] OP rhs.content[n]; }
RECURSIVE VecZipLoop(_, _, _, _, _)
VecZipLoop(op, self, rhs, n, pass) ==
    IF n = Len(self) THEN Ok(pass)
    ELSE LET a == Vector_index(self, n)
             b == Vector_index(rhs, n)
         IN  IF a.st # "ok" THEN a
             ELSE IF b.st # "ok" THEN b
             ELSE LET x == ScalarOp(op, a.out, b.out)
                  IN  IF x.st # "ok" THEN x
                      ELSE LET w == Vector_index_mut(pass, n, x.out)
                           IN  IF w.st # "ok" THEN w
                               ELSE VecZipLoop(op, self, rhs, n + 1, w.out)

VecZip(op, self, rhs, what) ==
    IF Len(self) = Len(rhs)
    THEN VecZipLoop(op, self, rhs, 0, Vector_new(Len(self), 0))
    ELSE Panic(what)

\* A plausible slip: the operands of the division taken in the other order.
Vector_div_swapped(self, rhs) == VecZip("/", rhs, self, "DimensionMismatch")

Vector_add(self, rhs) == VecZip("+", self, rhs, "DimensionMismatch")

Vector_sub(self, rhs) == VecZip("-", self, rhs, "DimensionMismatch")

Vector_mul(self, rhs) == VecZip("*", self, rhs, "DimensionMismatch")

Vector_div(self, rhs) == VecZip("/", self, rhs, "DimensionMismatch")

\* Number::powf at T = i32: (*self as f64).powf(pow), for the exponents
\* 0, 1, 2, ... (x^0 = 1 for every x, 0^0 included).
RECURSIVE Number_powf(_, _)
Number_powf(self, pow) ==
    IF pow = 0 THEN 1 ELSE self * Number_powf(self, pow - 1)

\* for n in 0 .. self.len() { self.content[n].powf(pow); }
\* The value of each powf is dropped; the loop ends with the content as it was.
RECURSIVE PowfLoop(_, _, _)
PowfLoop(self, pow, n) ==
    IF n = Len(self) THEN Ok(None)
    ELSE LET a == Vector_index(self, n)
         IN  IF a.st # "ok" THEN a
             ELSE LET dropped == Number_powf(a.out, pow)
                  IN  PowfLoop(self, pow, n + 1)

\* Vector::powf(&self, pow): returns ()
Vector_powf(self, pow) == PowfLoop(self, pow, 0)

\* The f64 value NaN, coded as a scalar apart from Vals; only == and != are
\* ever applied to it.
NaN == 2

\* a != b of the scalar type (PartialEq of T): NaN differs from every value,
\* itself included; on i32 it is plain inequality.
Scalar_ne(a, b) == a = NaN \/ b = NaN \/ a # b

\* for n in 0 .. self.len() { if self.content[n] != other.content[n] { return false; } } true
RECURSIVE EqLoop(_, _, _)
EqLoop(self, other, n) ==
    IF n = Len(self) THEN Ok(TRUE)
    ELSE LET a == Vector_index(self, n)
             b == Vector_index(other, n)
         IN  IF a.st # "ok" THEN a
             ELSE IF b.st # "ok" THEN b
             ELSE IF Scalar_ne(a.out, b.out) THEN Ok(FALSE)
             ELSE EqLoop(self, other, n + 1)

\* Vector == Vector
Vector_eq(self, other) ==
    IF Len(self) # Len(other) THEN Ok(FALSE)
    ELSE EqLoop(self, other, 0)

(***************************************************************************)
(* matrix.rs: Matrix<T> { rows, cols, content }.                           *)
(***************************************************************************)
Matrix(rows, cols, content) == [rows |-> rows, cols |-> cols, content |-> content]

\* Matrix::get
Matrix_get(self, r, c) ==
    IF r < self.rows /\ c < self.cols
    THEN Vector_index(self.content, r * self.cols + c)
    ELSE Panic("MatrixIndexOutOfBounds")

\* Matrix::set; out is the receiver after the call
Matrix_set(self, r, c, a) ==
    IF r < self.rows /\ c < self.cols
    THEN LET w == Vector_index_mut(self.content, r * self.cols + c, a)
         IN  IF w.st # "ok" THEN w
             ELSE Ok(Matrix(self.rows, self.cols, w.out))
    ELSE Panic("MatrixIndexOutOfBounds")

\* Matrix::new
Matrix_new(rows, cols, default) ==
    Matrix(rows, cols, Vector_new(rows * cols, default))

\* matrix::from
matrix_from(rows, cols, elements) == Matrix(rows, cols, vector_from(elements))

\* matrix::zeros
zeros(rows, cols) == Matrix(rows, cols, Vector_new(rows * cols, 0))

\* matrix::zeros_like
zeros_like(other) ==
    Matrix(other.rows, other.cols, Vector_new(other.rows * other.cols, 0))

\* for n in 0 .. size { i.set(n, n, T::one()); }
RECURSIVE IdentityLoop(_, _, _)
IdentityLoop(size, n, i) ==
    IF n = size THEN Ok(i)
    ELSE LET s == Matrix_set(i, n, n, 1)
         IN  IF s.st # "ok" THEN s ELSE IdentityLoop(size, n + 1, s.out)

\* matrix::identity
identity(size) == IdentityLoop(size, 0, Matrix_new(size, size, 0))

\* A plausible slip: the element-count check dropped.
Matrix_reshape_unchecked(self, rows, cols) ==
    Ok(Matrix(rows, cols, self.content))

\* Matrix::reshape; out is the receiver after the call
Matrix_reshape(self, rows, cols) ==
    IF self.rows * self.cols = rows * cols
    THEN Ok(Matrix(rows, cols, self.content))
    ELSE Panic("ShapeMismatch")

\* for n in 0 .. self.rows { for m in 0 .. self.cols {
\*     pass[m * self.cols + n] = self.get(n, m); } }
\* The pair (n, mm) is visited in row-major order; j counts the visits.
RECURSIVE TransposeLoop(_, _, _)
TransposeLoop(self, j, pass) ==
    IF j = self.rows * self.cols THEN Ok(pass)
    ELSE LET n  == j \div self.cols
             mm == j % self.cols
             g  == Matrix_get(self, n, mm)
         IN  IF g.st # "ok" THEN g
             ELSE LET w == Vector_index_mut(pass, mm * self.cols + n, g.out)
                  IN  IF w.st # "ok" THEN w
                      ELSE TransposeLoop(self, j + 1, w.out)

\* Matrix::transpose; out is the receiver after the call (self.content = pass)
Matrix_transpose(self) ==
    LET l == TransposeLoop(self, 0, self.content)
    IN  IF l.st # "ok" THEN l
        ELSE Ok(Matrix(self.rows, self.cols, l.out))

\* Matrix::transposed; out is the returned matrix (the clone, written through)
Matrix_transposed(self) ==
    LET l == TransposeLoop(self, 0, self.content)
    IN  IF l.st # "ok" THEN l
        ELSE Ok(Matrix(self.rows, self.cols, l.out))

\* for n in 0 .. self.rows { sum = sum + self.get(n, n); }
RECURSIVE TraceLoop(_, _, _)
TraceLoop(self, n, sum) ==
    IF n = self.rows THEN Ok(sum)
    ELSE LET g == Matrix_get(self, n, n)
         IN  IF g.st # "ok" THEN g ELSE TraceLoop(self, n + 1, sum + g.out)

\* Matrix::trace
Matrix_trace(self) ==
    IF self.rows = self.cols THEN TraceLoop(self, 0, 0)
    ELSE Panic("NotSquare")

\* Matrix::powf(&self, pow): self.content.powf(pow); returns ()
Matrix_powf(self, pow) == Vector_powf(self.content, pow)

\* Matrix[index]: &self.content.content[self.rows * index .. self.rows * index + self.cols]
\* The range check of the slice panics when the range ends past the buffer.
Matrix_index(self, index) ==
    LET start == self.rows * index
        end   == self.rows * index + self.cols
    IN  IF end > Len(self.content) THEN Panic("SliceRangeOutOfBounds")
        ELSE Ok(SubSeq(self.content, start + 1, end))

\* Matrix == Matrix without the comparison of rows and cols.
Matrix_eq_content_only(self, other) == Vector_eq(self.content, other.content)

\* Matrix == Matrix
Matrix_eq(self, other) ==
    IF self.rows # other.rows \/ self.cols # other.cols
    THEN Ok(FALSE)
    ELSE Vector_eq(self.content, other.content)

\* Matrix + Matrix, Matrix - Matrix: the check, then the Vector operator on
\* the two contents.
Matrix_add(self, rhs) ==
    IF self.rows = rhs.rows /\ self.cols = rhs.cols
    THEN LET v == Vector_add(self.content, rhs.content)
         IN  IF v.st # "ok" THEN v ELSE Ok(Matrix(self.rows, self.cols, v.out))
    ELSE Panic("DimensionMismatch")

Matrix_sub(self, rhs) ==
    IF self.rows = rhs.rows /\ self.cols = rhs.cols
    THEN LET v == Vector_sub(self.content, rhs.content)
         IN  IF v.st # "ok" THEN v ELSE Ok(Matrix(self.rows, self.cols, v.out))
    ELSE Panic("DimensionMismatch")

\* for k in 0 .. self.cols { product = product + self.get(n, k) OP rhs.get(k, m); }
RECURSIVE ProductLoop(_, _, _, _, _, _, _)
ProductLoop(op, self, rhs, n, mm, k, product) ==
    IF k = self.cols THEN Ok(product)
    ELSE LET a == Matrix_get(self, n, k)
         IN  IF a.st # "ok" THEN a
             ELSE LET b == Matrix_get(rhs, k, mm)
                  IN  IF b.st # "ok" THEN b
                      ELSE LET t == ScalarOp(op, a.out, b.out)
                           IN  IF t.st # "ok" THEN t
                               ELSE ProductLoop(op, self, rhs, n, mm, k + 1,
                                                product + t.out)

\* for n in 0 .. self.rows { for m in 0 .. rhs.cols { ...; pass.set(n, m, product); } }
RECURSIVE CellLoop(_, _, _, _, _)
CellLoop(op, self, rhs, j, pass) ==
    IF j = self.rows * rhs.cols THEN Ok(pass)
    ELSE LET n  == j \div rhs.cols
             mm == j % rhs.cols
             p  == ProductLoop(op, self, rhs, n, mm, 0, 0)
         IN  IF p.st # "ok" THEN p
             ELSE LET s == Matrix_set(pass, n, mm, p.out)
                  IN  IF s.st # "ok" THEN s
                      ELSE CellLoop(op, self, rhs, j + 1, s.out)

\* Matrix * Matrix
Matrix_mul(self, rhs) ==
    IF self.cols = rhs.cols
    THEN CellLoop("*", self, rhs, 0, Matrix_new(self.rows, self.cols, 0))
    ELSE Panic("DimensionMismatch")

\* Matrix / Matrix
Matrix_div(self, rhs) ==
    IF self.cols = rhs.cols
    THEN CellLoop("/", self, rhs, 0, Matrix_new(self.rows, self.cols, 0))
    ELSE Panic("DimensionMismatch")

\* p = p + a OP b, as Rust parses it: p + (a * b), (p + a) + b, (p + a) - b,
\* p + (a / b).
FoldStep(op, p, a, b) ==
    CASE op = "*" -> Ok(p + a * b)
      [] op = "+" -> Ok((p + a) + b)
      [] op = "-" -> Ok((p + a) - b)
      [] op = "/" -> LET q == IntDiv(a, b)
                     IN  IF q.st # "ok" THEN q ELSE Ok(p + q.out)

\* for n in 0 .. cols { p = p + content[(i * cols) + n] OP vec[n]; }
RECURSIVE RowLoop(_, _, _, _, _, _, _)
RowLoop(op, content, cols, vec, i, n, p) ==
    IF n = cols THEN Ok(p)
    ELSE LET a == Vector_index(content, (i * cols) + n)
         IN  IF a.st # "ok" THEN a
             ELSE LET b == Vector_index(vec, n)
                  IN  IF b.st # "ok" THEN b
                      ELSE LET t == FoldStep(op, p, a.out, b.out)
                           IN  IF t.st # "ok" THEN t
                               ELSE RowLoop(op, content, cols, vec, i, n + 1, t.out)

\* a / b of usize: panics on b = 0
UsizeDiv(a, b) == IF b = 0 THEN Panic("DivideByZero") ELSE Ok(a \div b)

\* while i < content.len() / cols { ...; pass.content.push(p); i += 1 }
RECURSIVE RowsLoop(_, _, _, _, _, _)
RowsLoop(op, content, cols, vec, i, pass) ==
    LET q == UsizeDiv(Len(content), cols)
    IN  IF q.st # "ok" THEN q
        ELSE IF ~(i < q.out) THEN Ok(pass)
        ELSE LET p == RowLoop(op, content, cols, vec, i, 0, 0)
             IN  IF p.st # "ok" THEN p
                 ELSE RowsLoop(op, content, cols, vec, i + 1, Append(pass, p.out))

\* Matrix OP Vector
MatrixOpVector(op, self, rhs) ==
    IF self.cols = Len(rhs)
    THEN RowsLoop(op, self.content, self.cols, rhs, 0, Vector_new(0, 0))
    ELSE Panic("DimensionMismatch")

Matrix_mul_Vector(self, rhs) == MatrixOpVector("*", self, rhs)

Matrix_add_Vector(self, rhs) == MatrixOpVector("+", self, rhs)

Matrix_sub_Vector(self, rhs) == MatrixOpVector("-", self, rhs)

Matrix_div_Vector(self, rhs) == MatrixOpVector("/", self, rhs)

\* Vector OP Matrix: the check compares rhs.get_cols() with
\* rhs.get_vector().len(); the loops read rhs.get_vector() and self.content.
VectorOpMatrix(op, self, rhs) ==
    IF rhs.cols = Len(rhs.content)
    THEN RowsLoop(op, rhs.content, rhs.cols, self, 0, Vector_new(0, 0))
    ELSE Panic("DimensionMismatch")

Vector_mul_Matrix(self, rhs) == VectorOpMatrix("*", self, rhs)

Vector_div_Matrix(self, rhs) == VectorOpMatrix("/", self, rhs)

Vector_add_Matrix(self, rhs) == VectorOpMatrix("+", self, rhs)

Vector_sub_Matrix(self, rhs) == VectorOpMatrix("-", self, rhs)

(***************************************************************************)
(* The state machine.  m is the matrix the caller holds; last records the  *)
(* most recent call: its name, its scalar arguments, the operands as they  *)
(* were before the call, and its result.  A mutator that returns replaces  *)
(* m; a call that panics has written nothing to its receiver.  A call is   *)
(* issued when no result is pending (Ready); Continue is the caller        *)
(* dropping the result of the call before the next one.                    *)
(***************************************************************************)
Nil == Matrix(0, 0, <<>>)

Call(op, args, self, other, vec, vec2, res) ==
    [op |-> op, args |-> args, self |-> self, other |-> other,
     vec |-> vec, vec2 |-> vec2, res |-> res]

\* The matrices handed to the binary operators as the other operand.
Operands ==
    {Matrix_new(r, c, d) : r \in Dims, c \in Dims, d \in Vals}
        \cup {identity(k).out : k \in Dims}

\* No call is in progress or awaiting its caller.
Idle == Call("none", <<>>, Nil, Nil, None, None, Ok(None))

Ready == last.op = "none"

Init ==
    /\ m = Matrix_new(0, 0, 0)
    /\ last = Idle

New ==
    /\ Ready
    /\ \E r \in Dims, c \in Dims, d \in Vals :
           /\ m' = Matrix_new(r, c, d)
           /\ last' = Call("new", <<r, c, d>>, Nil, Nil, None, None, Ok(m'))

From ==
    /\ Ready
    /\ \E r \in Dims, c \in Dims, s \in Slices :
           /\ m' = matrix_from(r, c, s)
           /\ last' = Call("from", <<r, c>>, Nil, Nil, s, None, Ok(m'))

Identity ==
    /\ Ready
    /\ \E k \in Dims :
           /\ m' = identity(k).out
           /\ last' = Call("identity", <<k>>, Nil, Nil, None, None, identity(k))

Zeros ==
    /\ Ready
    /\ \E r \in Dims, c \in Dims :
           /\ m' = zeros(r, c)
           /\ last' = Call("zeros", <<r, c>>, Nil, Nil, None, None, Ok(m'))

ZerosLike ==
    /\ Ready
    /\ m' = zeros_like(m)
    /\ last' = Call("zeros_like", <<>>, Nil, m, None, None, Ok(m'))

Get ==
    /\ Ready
    /\ \E r \in Dims, c \in Dims :
           /\ last' = Call("get", <<r, c>>, m, Nil, None, None, Matrix_get(m, r, c))
           /\ UNCHANGED m

Set ==
    /\ Ready
    /\ \E r \in Dims, c \in Dims, a \in Vals :
           LET res == Matrix_set(m, r, c, a)
           IN  /\ m' = IF res.st = "ok" THEN res.out ELSE m
               /\ last' = Call("set", <<r, c, a>>, m, Nil, None, None, res)

Reshape ==
    /\ Ready
    /\ \E r \in Dims, c \in Dims :
           LET res == Matrix_reshape(m, r, c)
           IN  /\ m' = IF res.st = "ok" THEN res.out ELSE m
               /\ last' = Call("reshape", <<r, c>>, m, Nil, None, None, res)

Transpose ==
    /\ Ready
    /\ LET res == Matrix_transpose(m)
       IN  /\ m' = IF res.st = "ok" THEN res.out ELSE m
           /\ last' = Call("transpose", <<>>, m, Nil, None, None, res)

Transposed ==
    /\ Ready
    /\ last' = Call("transposed", <<>>, m, Nil, None, None, Matrix_transposed(m))
    /\ UNCHANGED m

Trace ==
    /\ Ready
    /\ last' = Call("trace", <<>>, m, Nil, None, None, Matrix_trace(m))
    /\ UNCHANGED m

\* lhs OP rhs of two matrices; the held matrix is either side.
MatAdd ==
    /\ Ready
    /\ \E b \in Operands, held \in {"lhs", "rhs"} :
           LET lhs == IF held = "lhs" THEN m ELSE b
               rhs == IF held = "lhs" THEN b ELSE m
           IN  /\ last' = Call("add", <<>>, lhs, rhs, None, None, Matrix_add(lhs, rhs))
               /\ UNCHANGED m

MatSub ==
    /\ Ready
    /\ \E b \in Operands, held \in {"lhs", "rhs"} :
           LET lhs == IF held = "lhs" THEN m ELSE b
               rhs == IF held = "lhs" THEN b ELSE m
           IN  /\ last' = Call("sub", <<>>, lhs, rhs, None, None, Matrix_sub(lhs, rhs))
               /\ UNCHANGED m

MatMul ==
    /\ Ready
    /\ \E b \in Operands, held \in {"lhs", "rhs"} :
           LET lhs == IF held = "lhs" THEN m ELSE b
               rhs == IF held = "lhs" THEN b ELSE m
           IN  /\ last' = Call("mul", <<>>, lhs, rhs, None, None, Matrix_mul(lhs, rhs))
               /\ UNCHANGED m

MatDiv ==
    /\ Ready
    /\ \E b \in Operands, held \in {"lhs", "rhs"} :
           LET lhs == IF held = "lhs" THEN m ELSE b
               rhs == IF held = "lhs" THEN b ELSE m
           IN  /\ last' = Call("div", <<>>, lhs, rhs, None, None, Matrix_div(lhs, rhs))
               /\ UNCHANGED m

\* m OP v
MatMulVec ==
    /\ Ready
    /\ \E v \in Slices :
           /\ last' = Call("mul_vec", <<>>, m, Nil, vector_from(v), None,
                           Matrix_mul_Vector(m, vector_from(v)))
           /\ UNCHANGED m

MatAddVec ==
    /\ Ready
    /\ \E v \in Slices :
           /\ last' = Call("add_vec", <<>>, m, Nil, vector_from(v), None,
                           Matrix_add_Vector(m, vector_from(v)))
           /\ UNCHANGED m

MatSubVec ==
    /\ Ready
    /\ \E v \in Slices :
           /\ last' = Call("sub_vec", <<>>, m, Nil, vector_from(v), None,
                           Matrix_sub_Vector(m, vector_from(v)))
           /\ UNCHANGED m

MatDivVec ==
    /\ Ready
    /\ \E v \in Slices :
           /\ last' = Call("div_vec", <<>>, m, Nil, vector_from(v), None,
                           Matrix_div_Vector(m, vector_from(v)))
           /\ UNCHANGED m

\* v OP m
VecMulMat ==
    /\ Ready
    /\ \E v \in Slices :
           /\ last' = Call("vec_mul", <<>>, Nil, m, vector_from(v), None,
                           Vector_mul_Matrix(vector_from(v), m))
           /\ UNCHANGED m

VecDivMat ==
    /\ Ready
    /\ \E v \in Slices :
           /\ last' = Call("vec_div", <<>>, Nil, m, vector_from(v), None,
                           Vector_div_Matrix(vector_from(v), m))
           /\ UNCHANGED m

VecAddMat ==
    /\ Ready
    /\ \E v \in Slices :
           /\ last' = Call("vec_add", <<>>, Nil, m, vector_from(v), None,
                           Vector_add_Matrix(vector_from(v), m))
           /\ UNCHANGED m

VecSubMat ==
    /\ Ready
    /\ \E v \in Slices :
           /\ last' = Call("vec_sub", <<>>, Nil, m, vector_from(v), None,
                           Vector_sub_Matrix(vector_from(v), m))
           /\ UNCHANGED m

\* The exponents handed to powf.
Pows == {0, 1, 2}

\* m.powf(pow): the receiver is borrowed immutably
MatPowf ==
    /\ Ready
    /\ \E pow \in Pows :
           /\ last' = Call("powf", <<pow>>, m, Nil, None, None, Matrix_powf(m, pow))
           /\ UNCHANGED m

\* m[i]
Index ==
    /\ Ready
    /\ \E i \in Dims :
           /\ last' = Call("index", <<i>>, m, Nil, None, None, Matrix_index(m, i))
           /\ UNCHANGED m

\* The caller is done with the result of the call and goes on.
Continue ==
    /\ ~Ready
    /\ last' = Idle
    /\ UNCHANGED m

Next ==
    \/ Continue
    \/ New \/ From \/ Identity \/ Zeros \/ ZerosLike
    \/ Get \/ Set \/ Reshape \/ Transpose \/ Transposed \/ Trace
    \/ MatAdd \/ MatSub \/ MatMul \/ MatDiv
    \/ MatMulVec \/ MatAddVec \/ MatSubVec \/ MatDivVec
    \/ VecMulMat \/ VecDivMat \/ VecAddMat \/ VecSubMat
    \/ MatPowf \/ Index

Spec == Init /\ [][Next]_vars

(***************************************************************************)
(* The Vector engine alone: a OP b of two vectors built by vector::from.   *)
(***************************************************************************)
VecAdd ==
    /\ Ready
    /\ \E a \in Slices, b \in Slices :
           /\ last' = Call("v_add", <<>>, Nil, Nil, vector_from(a), vector_from(b),
                           Vector_add(vector_from(a), vector_from(b)))
           /\ UNCHANGED m

VecSub ==
    /\ Ready
    /\ \E a \in Slices, b \in Slices :
           /\ last' = Call("v_sub", <<>>, Nil, Nil, vector_from(a), vector_from(b),
                           Vector_sub(vector_from(a), vector_from(b)))
           /\ UNCHANGED m

VecMul ==
    /\ Ready
    /\ \E a \in Slices, b \in Slices :
           /\ last' = Call("v_mul", <<>>, Nil, Nil, vector_from(a), vector_from(b),
                           Vector_mul(vector_from(a), vector_from(b)))
           /\ UNCHANGED m

VecDiv ==
    /\ Ready
    /\ \E a \in Slices, b \in Slices :
           /\ last' = Call("v_div", <<>>, Nil, Nil, vector_from(a), vector_from(b),
                           Vector_div(vector_from(a), vector_from(b)))
           /\ UNCHANGED m

\* v.powf(pow); vec2 is the vector after the call
VecPowf ==
    /\ Ready
    /\ \E v \in Slices, pow \in Pows :
           /\ last' = Call("v_powf", <<pow>>, Nil, Nil, vector_from(v), vector_from(v),
                           Vector_powf(vector_from(v), pow))
           /\ UNCHANGED m

NextVec == Continue \/ VecAdd \/ VecSub \/ VecMul \/ VecDiv \/ VecPowf

SpecVec == Init /\ [][NextVec]_vars

(***************************************************************************)
(* Vocabulary of the properties.                                           *)
(***************************************************************************)
\* The storage invariant of a matrix value.
WellFormed(A) == Len(A.content) = A.rows * A.cols

\* A matrix with at least one row and one column that satisfies the invariant.
Proper(A) == WellFormed(A) /\ A.rows >= 1 /\ A.cols >= 1

\* Element (i, j) of a matrix in row-major order.
Elem(A, i, j) == A.content[i * A.cols + j + 1]

Returned == last.res.st = "ok"

\* The operator a binary call applies.
OpSym(name) ==
    CASE name \in {"add", "add_vec", "vec_add", "v_add"} -> "+"
      [] name \in {"sub", "sub_vec", "vec_sub", "v_sub"} -> "-"
      [] name \in {"mul", "mul_vec", "vec_mul", "v_mul"} -> "*"
      [] name \in {"div", "div_vec", "vec_div", "v_div"} -> "/"

\* x OP y on scalars whose quotient is defined (operands are not negative).
Apply(op, x, y) ==
    CASE op = "+" -> x + y
      [] op = "-" -> x - y
      [] op = "*" -> x * y
      [] op = "/" -> IF y = 0 THEN 0 ELSE x \div y

\* The sum over j < k of A[n, j] * B[j, mm], from zero in increasing j.
RECURSIVE DotSum(_, _, _, _, _)
DotSum(A, B, n, mm, k) ==
    IF k = 0 THEN 0
    ELSE DotSum(A, B, n, mm, k - 1) + Elem(A, n, k - 1) * Elem(B, k - 1, mm)

\* p after the columns below n of row i: p = p + M[i, n] OP v[n], from zero.
RECURSIVE RowFold(_, _, _, _, _)
RowFold(op, M, v, i, n) ==
    IF n = 0 THEN 0
    ELSE LET p == RowFold(op, M, v, i, n - 1)
             a == Elem(M, i, n - 1)
             b == v[n]
         IN  CASE op = "*" -> p + a * b
               [] op = "+" -> (p + a) + b
               [] op = "-" -> (p + a) - b
               [] op = "/" -> p + Apply("/", a, b)

\* The vector of length M.rows of the folded rows.
FoldedRows(op, M, v) == [i \in 1 .. M.rows |-> RowFold(op, M, v, i - 1, M.cols)]

(***************************************************************************)
(* C1.  Storage invariant: every matrix obtained from a public constructor *)
(* (new, from with any rows, cols and slice, identity, zeros, zeros_like)  *)
(* followed by any set, transpose and reshape calls that return has a      *)
(* backing vector of length rows * cols.                                   *)
(* Fails: matrix::from stores whatever slice it is given.                  *)
(***************************************************************************)
C1_StorageInvariant == WellFormed(m)

(***************************************************************************)
(* C2.  Transpose: for every matrix A of shape r x c, transpose() and      *)
(* transposed() return, and yield a matrix of shape c x r whose element    *)
(* (j, i) is A's element (i, j); transposed() leaves its receiver as it    *)
(* was.  Stated for the receivers that satisfy the storage invariant and   *)
(* have at least one row and one column.                                   *)
(* Fails: the shape is never swapped and the write index m * cols + n      *)
(* runs past the buffer when rows < cols.                                  *)
(***************************************************************************)
C2_Transpose ==
    (last.op \in {"transpose", "transposed"} /\ Proper(last.self)) =>
        LET A == last.self
            T == last.res.out
        IN  /\ Returned
            /\ T.rows = A.cols
            /\ T.cols = A.rows
            /\ \A i \in 0 .. A.rows - 1, j \in 0 .. A.cols - 1 :
                   Elem(T, j, i) = Elem(A, i, j)
            /\ (last.op = "transpose" => m = T)
            /\ (last.op = "transposed" => m = A)

(***************************************************************************)
(* C3.  Matrix product: for A of shape r x k and B of shape k x c the      *)
(* product A * B returns a matrix of shape r x c whose element (n, m) is   *)
(* the sum over j < k of A[n, j] * B[j, m].  Stated for operands that      *)
(* satisfy the storage invariant and have at least one row and column.     *)
(* Fails: the check compares A.cols with B.cols, and the result is         *)
(* allocated as r x A.cols.                                                *)
(***************************************************************************)
C3_MatrixProduct ==
    (/\ last.op = "mul"
     /\ Proper(last.self)
     /\ Proper(last.other)
     /\ last.self.cols = last.other.rows) =>
        LET A == last.self
            B == last.other
            P == last.res.out
        IN  /\ Returned
            /\ P.rows = A.rows
            /\ P.cols = B.cols
            /\ Len(P.content) = A.rows * B.cols
            /\ \A n \in 0 .. A.rows - 1, mm \in 0 .. B.cols - 1 :
                   Elem(P, n, mm) = DotSum(A, B, n, mm, A.cols)

(***************************************************************************)
(* C4.  Vector OP Matrix: v OP M returns exactly when M.cols = v.length,   *)
(* and then the result is the vector of length M.rows of the rows folded   *)
(* from zero; otherwise the call fails with the dimension mismatch.        *)
(* Stated for matrices that satisfy the storage invariant and have at      *)
(* least one row and one column.                                           *)
(* Fails: the check compares M.cols with the length of M's content.        *)
(***************************************************************************)
C4_VectorOpMatrix ==
    (last.op \in {"vec_mul", "vec_div", "vec_add", "vec_sub"}
        /\ Proper(last.other)) =>
        LET M == last.other
            v == last.vec
        IN  IF M.cols = Len(v)
            THEN Returned /\ last.res.out = FoldedRows(OpSym(last.op), M, v)
            ELSE last.res.st = "DimensionMismatch"

(***************************************************************************)
(* C5.  Matrix OP Vector: for M of shape r x c (r = 0 and c = 0 included)  *)
(* and a vector v, M OP v returns the vector of length r of the rows       *)
(* folded from zero when c = v.length, and fails with the dimension        *)
(* mismatch otherwise.  Stated for matrices that satisfy the storage       *)
(* invariant.                                                              *)
(* Fails: the row count is computed as content.len() / cols, which panics  *)
(* when cols = 0.                                                          *)
(***************************************************************************)
C5_MatrixOpVector ==
    (last.op \in {"mul_vec", "add_vec", "sub_vec", "div_vec"}
        /\ WellFormed(last.self)) =>
        LET M == last.self
            v == last.vec
        IN  IF M.cols = Len(v)
            THEN Returned /\ last.res.out = FoldedRows(OpSym(last.op), M, v)
            ELSE last.res.st = "DimensionMismatch"

(***************************************************************************)
(* C6.  Validate before work: a call that fails fails with the error of    *)
(* its own up-front check (get, set: out of bounds; reshape: shape         *)
(* mismatch; trace: not square; a binary operator: dimension mismatch;     *)
(* transpose and transposed have no check and so never fail), and leaves   *)
(* its receiver as it was.  Stated for operands that satisfy the storage   *)
(* invariant and have at least one row and column, and for the operators   *)
(* other than the divisions (whose scalar quotient may itself panic).      *)
(* Fails: calls pass their check and then index out of range in the loop.  *)
(***************************************************************************)
OwnError(name) ==
    CASE name \in {"get", "set"} -> "MatrixIndexOutOfBounds"
      [] name = "reshape" -> "ShapeMismatch"
      [] name = "trace" -> "NotSquare"
      [] name \in {"add", "sub", "mul", "mul_vec", "add_vec", "sub_vec",
                   "vec_mul", "vec_add", "vec_sub"} -> "DimensionMismatch"
      [] OTHER -> "no check"

\* The matrices the last call was given.
MatrixOperands ==
    CASE last.op \in {"add", "sub", "mul", "div"} -> {last.self, last.other}
      [] last.op \in {"vec_mul", "vec_div", "vec_add", "vec_sub"} -> {last.other}
      [] OTHER -> {last.self}

C6_ValidateBeforeWork ==
    (/\ last.op \in {"get", "set", "reshape", "trace", "transpose", "transposed",
                     "add", "sub", "mul", "mul_vec", "add_vec", "sub_vec",
                     "vec_mul", "vec_add", "vec_sub"}
     /\ \A A \in MatrixOperands : Proper(A)
     /\ ~Returned) =>
        /\ last.res.st = OwnError(last.op)
        /\ (last.op \in {"get", "set", "reshape", "trace", "transpose",
                         "transposed"} => m = last.self)

(***************************************************************************)
(* C7.  Vector elementwise operators, as claimed: for vectors a, b and OP  *)
(* in + - * /, if the lengths are equal a OP b returns a vector of that    *)
(* length with (a OP b)[i] = a[i] OP b[i]; if they differ the call fails   *)
(* with the dimension mismatch and produces no result.                     *)
(* Fails: a / b panics when a divisor b[i] is zero (integer scalars).      *)
(***************************************************************************)
C7_VectorElementwise_Claimed ==
    last.op \in {"v_add", "v_sub", "v_mul", "v_div"} =>
        LET a  == last.vec
            b  == last.vec2
            op == OpSym(last.op)
        IN  IF Len(a) = Len(b)
            THEN /\ Returned
                 /\ Len(last.res.out) = Len(a)
                 /\ \A i \in 1 .. Len(a) :
                        Ok(last.res.out[i]) = ScalarOp(op, a[i], b[i])
            ELSE last.res = Panic("DimensionMismatch")

(***************************************************************************)
(* C7, amended.  If the lengths are equal and every a[i] OP b[i] is        *)
(* defined, a OP b returns a vector of that length with                    *)
(* (a OP b)[i] = a[i] OP b[i], left operand first; if the lengths are      *)
(* equal and some a[i] OP b[i] panics (the division of an integer scalar   *)
(* by zero), the call fails with that panic and produces no result; if the *)
(* lengths differ the call fails with the dimension mismatch and produces  *)
(* no result.                                                              *)
(***************************************************************************)
C7_VectorElementwise ==
    last.op \in {"v_add", "v_sub", "v_mul", "v_div"} =>
        LET a  == last.vec
            b  == last.vec2
            op == OpSym(last.op)
            undefined == {i \in 1 .. Len(a) : ScalarOp(op, a[i], b[i]).st # "ok"}
        IN  IF Len(a) # Len(b) THEN last.res = Panic("DimensionMismatch")
            ELSE IF undefined # {} THEN last.res = Panic("DivideByZero")
            ELSE /\ Returned
                 /\ Len(last.res.out) = Len(a)
                 /\ \A i \in 1 .. Len(a) :
                        Ok(last.res.out[i]) = ScalarOp(op, a[i], b[i])

\* A division of two different vectors of two elements has returned.
C7_Witness ==
    /\ last.op = "v_div"
    /\ Len(last.vec) = 2
    /\ Len(last.vec2) = 2
    /\ last.vec # last.vec2
    /\ Returned

(***************************************************************************)
(* C8.  Reshape: reshape(nr, nc) of a rows x cols matrix returns exactly   *)
(* when nr * nc = rows * cols; it then sets the shape to nr x nc and       *)
(* leaves the content as it was, so that reshaping m x n to n x m and back *)
(* restores shape and content; otherwise it fails with the shape mismatch  *)
(* and rows, cols and content are as before.                               *)
(***************************************************************************)
C8_Reshape ==
    last.op = "reshape" =>
        LET A  == last.self
            nr == last.args[1]
            nc == last.args[2]
        IN  /\ Returned <=> (nr * nc = A.rows * A.cols)
            /\ Returned => m = Matrix(nr, nc, A.content)
            /\ ~Returned => (last.res.st = "ShapeMismatch" /\ m = A)
            /\ LET there == Matrix_reshape(A, A.cols, A.rows)
               IN  /\ there.st = "ok"
                   /\ there.out.rows = A.cols
                   /\ there.out.cols = A.rows
                   /\ Matrix_reshape(there.out, A.rows, A.cols) = Ok(A)

\* A non-empty matrix has been reshaped to another shape.
C8_Witness ==
    /\ last.op = "reshape"
    /\ Returned
    /\ m.rows # last.self.rows
    /\ Len(m.content) >= 2

(***************************************************************************)
(* C9.  Bounds-checked element access: for every matrix and every r, c,    *)
(* get(r, c) and set(r, c, a) fail with the out-of-bounds error exactly    *)
(* when r >= rows or c >= cols; otherwise get returns the element at flat  *)
(* index r * cols + c, and after set get(r, c) = a while rows, cols and    *)
(* every other element are as before.                                      *)
(* Fails on the matrices matrix::from builds from a slice that is too      *)
(* short (C1): the check passes and the index is past the buffer.          *)
(***************************************************************************)
C9_ElementAccess ==
    last.op \in {"get", "set"} =>
        LET A == last.self
            r == last.args[1]
            c == last.args[2]
            k == r * A.cols + c + 1
        IN  IF r >= A.rows \/ c >= A.cols
            THEN last.res.st = "MatrixIndexOutOfBounds" /\ m = A
            ELSE /\ Returned
                 /\ last.op = "get" => (last.res.out = A.content[k] /\ m = A)
                 /\ last.op = "set" =>
                        /\ Matrix_get(m, r, c) = Ok(last.args[3])
                        /\ m.rows = A.rows
                        /\ m.cols = A.cols
                        /\ Len(m.content) = Len(A.content)
                        /\ \A i \in 1 .. Len(A.content) :
                               i # k => m.content[i] = A.content[i]

\* C9 for the receivers that satisfy the storage invariant.
C9_ElementAccess_WellFormed == WellFormed(last.self) => C9_ElementAccess

(***************************************************************************)
(* C10.  Trace: for every square matrix trace() returns the sum of the     *)
(* elements (n, n), n < rows, from zero, so that trace(identity(k)) = k;   *)
(* for every matrix with rows # cols it fails with the not-square error.   *)
(* Fails on the square matrices matrix::from builds from a slice that is   *)
(* too short (C1): get(n, n) indexes past the buffer.                      *)
(***************************************************************************)
RECURSIVE DiagSum(_, _)
DiagSum(A, n) == IF n = 0 THEN 0 ELSE DiagSum(A, n - 1) + Elem(A, n - 1, n - 1)

C10_Trace ==
    last.op = "trace" =>
        LET A == last.self
        IN  IF A.rows # A.cols THEN last.res.st = "NotSquare"
            ELSE /\ Returned
                 /\ last.res.out = DiagSum(A, A.rows)
                 /\ \A k \in 1 .. MaxDim :
                        A = identity(k).out => last.res.out = k

\* C10 for the receivers that satisfy the storage invariant.
C10_Trace_WellFormed == WellFormed(last.self) => C10_Trace

(***************************************************************************)
(* C11.  Multiplicative identity: for every square matrix A of shape       *)
(* r x r, identity(r) * A returns a matrix equal to A (same rows, same     *)
(* cols, same content).                                                    *)
(* Fails on the square matrices matrix::from builds from a slice of the    *)
(* wrong length (C1): rhs.get(k, m) indexes past the buffer.               *)
(***************************************************************************)
C11_LeftIdentity ==
    (/\ last.op = "mul"
     /\ last.other.rows = last.other.cols
     /\ last.self = identity(last.other.rows).out) =>
        /\ Returned
        /\ last.res.out = last.other

\* C11 for the matrices A that satisfy the storage invariant.
C11_LeftIdentity_WellFormed == WellFormed(last.other) => C11_LeftIdentity

\* identity(2) * A has returned for a 2 x 2 matrix A that is not symmetric.
C11_Reached ==
    /\ last.op = "mul"
    /\ last.self = identity(2).out
    /\ last.other.rows = 2
    /\ last.other.cols = 2
    /\ WellFormed(last.other)
    /\ Elem(last.other, 0, 1) # Elem(last.other, 1, 0)
    /\ Returned

(***************************************************************************)
(* C12.  Elementwise power takes effect: after powf(pow) on a vector v (or *)
(* a matrix M) either the container holds v[i] raised to pow at every i,   *)
(* or the call has returned a container holding those values.              *)
(* Fails: powf computes each power and drops it; it borrows its receiver   *)
(* immutably and returns ().                                               *)
(***************************************************************************)
\* The content with every element raised to pow.
Powered(content, pow) ==
    [i \in 1 .. Len(content) |-> Number_powf(content[i], pow)]

C12_PowfTakesEffect ==
    /\ last.op = "v_powf" =>
           \/ last.vec2 = Powered(last.vec, last.args[1])
           \/ last.res = Ok(Powered(last.vec, last.args[1]))
    /\ last.op = "powf" =>
           \/ m.content = Powered(last.self.content, last.args[1])
           \/ last.res = Ok(Matrix(last.self.rows, last.self.cols,
                                   Powered(last.self.content, last.args[1])))

(***************************************************************************)
(* Equality at T = f64: matrices whose elements are drawn from Vals and    *)
(* NaN, built by Matrix::new and matrix::from, compared with ==.           *)
(***************************************************************************)
Floats == Vals \cup {NaN}

RECURSIVE FloatSeqsOfLen(_)
FloatSeqsOfLen(n) ==
    IF n = 0 THEN {<<>>}
    ELSE {Append(s, x) : s \in FloatSeqsOfLen(n - 1), x \in Floats}

FloatSlices == UNION {FloatSeqsOfLen(n) : n \in Dims}

\* The matrices handed to == as the right operand.
FloatOperands ==
    {Matrix_new(r, c, d) : r \in Dims, c \in Dims, d \in Floats}
        \cup {matrix_from(r, c, s) : r \in Dims, c \in Dims, s \in FloatSlices}

NewF64 ==
    /\ Ready
    /\ \E r \in Dims, c \in Dims, d \in Floats :
           /\ m' = Matrix_new(r, c, d)
           /\ last' = Call("new", <<r, c, d>>, Nil, Nil, None, None, Ok(m'))

FromF64 ==
    /\ Ready
    /\ \E r \in Dims, c \in Dims, s \in FloatSlices :
           /\ m' = matrix_from(r, c, s)
           /\ last' = Call("from", <<r, c>>, Nil, Nil, s, None, Ok(m'))

\* m == b
MatEq ==
    /\ Ready
    /\ \E b \in FloatOperands :
           /\ last' = Call("eq", <<>>, m, b, None, None, Matrix_eq(m, b))
           /\ UNCHANGED m

NextEq == Continue \/ NewF64 \/ FromF64 \/ MatEq

SpecEq == Init /\ [][NextEq]_vars

\* A and B have the same shape, backing vectors of the same length, and
\* elements that compare equal at every position.
SameStructure(A, B) ==
    /\ A.rows = B.rows
    /\ A.cols = B.cols
    /\ Len(A.content) = Len(B.content)
    /\ \A i \in 1 .. Len(A.content) :
           i <= Len(B.content) => ~Scalar_ne(A.content[i], B.content[i])

\* No element of A is NaN.
NoNaN(A) == \A i \in 1 .. Len(A.content) : A.content[i] # NaN

\* A == B is structural, symmetric, and tells r x c zeros from c x r zeros.
StructuralSymmetricShaped ==
    /\ Returned
    /\ last.res.out = SameStructure(last.self, last.other)
    /\ Matrix_eq(last.other, last.self) = last.res
    /\ \A r \in Dims, c \in Dims :
           r # c => Matrix_eq(zeros(r, c), zeros(c, r)) = Ok(FALSE)
    /\ Matrix_eq(zeros(2, 3), zeros(3, 2)) = Ok(FALSE)

C13_Reflexive_Reached ==
    /\ last.op = "eq" /\ last.other = last.self
    /\ Len(last.self.content) = 2 /\ last.res = Ok(TRUE)

(***************************************************************************)
(* C14.  Row indexing agrees with get: for a matrix M that satisfies the   *)
(* storage invariant, with at least one row and one column, and i < rows,  *)
(* M[i] does not fail and is a slice of length cols with                   *)
(* M[i][j] = M.get(i, j) for every j < cols.                               *)
(* Fails when rows # cols: the slice starts at rows * i, not cols * i.     *)
(***************************************************************************)
C14_RowIndex ==
    (/\ last.op = "index"
     /\ Proper(last.self)
     /\ last.args[1] < last.self.rows) =>
        /\ Returned
        /\ Len(last.res.out) = last.self.cols
        /\ \A j \in 0 .. last.self.cols - 1 :
               Ok(last.res.out[j + 1]) = Matrix_get(last.self, last.args[1], j)

\* C14 for the square matrices.
C14_RowIndex_Square == last.self.rows = last.self.cols => C14_RowIndex

\* Row 1 of a 2 x 2 matrix whose rows differ has been taken.
C14_Square_Reached ==
    /\ last.op = "index" /\ last.args = <<1>>
    /\ WellFormed(last.self) /\ last.self.rows = 2 /\ last.self.cols = 2
    /\ last.res = Ok(<<Elem(last.self, 1, 0), Elem(last.self, 1, 1)>>)
    /\ Elem(last.self, 0, 0) # Elem(last.self, 1, 0)

====
